---- MODULE Spec2Model ----
(***************************************************************************)
(* PDF page to PNG conversion: the cloud handler lambda_handler            *)
(* (backend/pdf-converter/lambda_function.py) and the command-line         *)
(* function convert_pdf_page_to_image (layers/pymupdf/convert_pdf.py).     *)
(* One invocation per behaviour.  The handler is cut at its external calls *)
(* (storage read, base64 decode, document open, render, encode/save), each *)
(* of which may succeed or raise; pc is the handler's position.            *)
(***************************************************************************)
EXTENDS Integers, Sequences, FiniteSets, TLC

VARIABLES entry, event, argv, pc, page_number, dpi, pdf_bytes, doc, pix,
          png_bytes, trace, fault, response, exit_code, output_file, stderr

vars == <<entry, event, argv, pc, page_number, dpi, pdf_bytes, doc, pix,
          png_bytes, trace, fault, response, exit_code, output_file, stderr>>

(* ------------------------------ bounds --------------------------------- *)
\* longest pdfBase64 text tried
MaxB64Len == 4
\* largest page count of a document
MaxPages == 2
\* longest object returned by the storage read
MaxPdfLen == 1
\* longest PNG byte sequence the encoder returns
MaxPng == 2

(* --------------------------- program constants ------------------------- *)
DefaultPage == 1
DefaultDpi == 150
NativeDpi == 72
MinArgc == 4

(* ------------------------------ values --------------------------------- *)
\* A JSON / argv value that is an integer, and one that is not a number.
JInt(n) == [type |-> "int", val |-> n]
JStr == [type |-> "str", val |-> 0]
None == [type |-> "none", val |-> 0]

\* A byte sequence of length n (the content is the external library's business).
Bytes(n) == [i \in 1..n |-> 0]

\* "Q" stands for a character of the base64 alphabet, "!" for one outside it.
B64Chars == {"Q", "!", "="}
B64Texts == UNION {[1..n -> B64Chars] : n \in 0..MaxB64Len}

PageValues == {JInt(n) : n \in -1..(MaxPages + 1)} \cup {JStr}
DpiValues == {NativeDpi, DefaultDpi}
\* page sizes in points (letter, and a one-point page)
PageRects == {<<612, 792>>, <<1, 1>>}

\* A dict: a function whose domain is the set of keys present.
OptField(k, Vals) == {<<>>} \cup {k :> v : v \in Vals}
Events ==
    {a @@ b @@ c @@ d @@ e :
        a \in OptField("s3Bucket", {"bucket"}),
        b \in OptField("s3Key", {"key"}),
        c \in OptField("pdfBase64", B64Texts),
        d \in OptField("pageNumber", PageValues),
        e \in OptField("dpi", DpiValues)}

\* sys.argv: script, pdf_path, page_number, output_path, [dpi]
Argvs ==
    {<<"convert_pdf.py">>, <<"convert_pdf.py", "in.pdf">>}
    \cup {<<"convert_pdf.py", "in.pdf", p>> : p \in PageValues}
    \cup {<<"convert_pdf.py", "in.pdf", p, "out.png">> : p \in PageValues}
    \cup {<<"convert_pdf.py", "in.pdf", p, "out.png", JInt(d)>> :
            p \in PageValues, d \in DpiValues}
    \cup {<<"convert_pdf.py", "in.pdf", p, "out.png", JStr>> : p \in PageValues}

(* ------------------------- pure helper functions ----------------------- *)
\* dict.get(key, default)
Get(d, k, default) == IF k \in DOMAIN d THEN d[k] ELSE default

\* binascii.a2b_base64 (non-strict), as base64.b64decode(s) calls it:
\* characters outside the alphabet are skipped, a pad sequence that completes
\* a quad ends the parse, and only an incomplete quad at the end is an error.
RECURSIVE a2b(_, _, _, _, _)
a2b(s, i, quad_pos, pads, n) ==
    IF i > Len(s)
    THEN [ok |-> quad_pos = 0, data |-> Bytes(n)]
    ELSE IF s[i] = "="
    THEN IF quad_pos >= 2 /\ quad_pos + pads + 1 >= 4
         THEN [ok |-> TRUE, data |-> Bytes(n)]
         ELSE a2b(s, i + 1, quad_pos, IF quad_pos >= 2 THEN pads + 1 ELSE pads, n)
    ELSE IF s[i] # "Q"
    THEN a2b(s, i + 1, quad_pos, pads, n)
    ELSE a2b(s, i + 1, (quad_pos + 1) % 4, 0, IF quad_pos = 0 THEN n ELSE n + 1)

b64decode(s) == a2b(s, 1, 0, 0, 0)

\* base64.b64encode: four characters per three bytes, padded with "=".
b64encode(b) ==
    LET full == Len(b) \div 3
        rest == Len(b) % 3
        tail == CASE rest = 0 -> <<>>
                  [] rest = 1 -> <<"Q", "Q", "=", "=">>
                  [] rest = 2 -> <<"Q", "Q", "Q", "=">>
    IN  [i \in 1..(4 * full) |-> "Q"] \o tail

\* zoom = dpi / 72, kept as the fraction <<dpi, 72>>
Zoom(d) == <<d, NativeDpi>>

\* the pixel extent of a length in points under a zoom (rounded outwards)
Scale(len, zoom) == (len * zoom[1] + zoom[2] - 1) \div zoom[2]

\* an off-by-one range check: the last page is refused
PageOutOfRange_OffByOne(p, n) == p < 1 \/ p >= n

\* page_number < 1 or page_number > len(doc)
PageOutOfRange(p, n) == p < 1 \/ p > n

\* a selection that takes the storage branch on a bucket without a key
SourceOf_BucketOnly(ev) ==
    IF "s3Bucket" \in DOMAIN ev THEN "s3"
    ELSE IF "pdfBase64" \in DOMAIN ev THEN "base64"
    ELSE "none"

\* a selection that prefers the embedded bytes over the storage location
SourceOf_EmbeddedFirst(ev) ==
    IF "pdfBase64" \in DOMAIN ev THEN "base64"
    ELSE IF "s3Bucket" \in DOMAIN ev /\ "s3Key" \in DOMAIN ev THEN "s3"
    ELSE "none"

\* which branch of the source selection the request takes
SourceOf(ev) ==
    IF "s3Bucket" \in DOMAIN ev /\ "s3Key" \in DOMAIN ev THEN "s3"
    ELSE IF "pdfBase64" \in DOMAIN ev THEN "base64"
    ELSE "none"

NoDoc == [state |-> "none", pageCount |-> 0, rect |-> <<0, 0>>]
NoPix == [width |-> 0, height |-> 0]
NoResponse == [statusCode |-> 0, body |-> <<>>]

MissingSourceResponse ==
    [statusCode |-> 400,
     body |-> [error |-> [text |-> "s3Bucket+s3Key or pdfBase64 is required"]]]

\* a message that repeats the requested page in place of the page count
InvalidPageMessage_NoCount(p, n) ==
    [text |-> "Invalid page number: {page}. PDF has {pages} pages.",
     page |-> p, pages |-> p]

InvalidPageMessage(p, n) ==
    [text |-> "Invalid page number: {page}. PDF has {pages} pages.",
     page |-> p, pages |-> n]

InvalidPageResponse(p, n) ==
    [statusCode |-> 400, body |-> [error |-> InvalidPageMessage(p, n)]]

\* an except branch that reports the error under the success status
ExceptionResponse_Status200(type, msg) ==
    [statusCode |-> 200, body |-> [error |-> msg, type |-> type]]

\* an except branch that leaves the exception's class name out
ExceptionResponse_NoType(type, msg) ==
    [statusCode |-> 500, body |-> [error |-> msg]]

\* the except branch: str(e) and type(e).__name__
ExceptionResponse(type, msg) ==
    [statusCode |-> 500, body |-> [error |-> msg, type |-> type]]

SuccessResponse(image_base64, px, png, p, d) ==
    [statusCode |-> 200,
     body |-> [imageBase64 |-> image_base64,
               width |-> px.width,
               height |-> px.height,
               size |-> Len(png),
               pageNumber |-> p,
               dpi |-> d]]

(* -------------------------------- Init --------------------------------- *)
Init ==
    /\ entry \in {"lambda", "cli"}
    /\ IF entry = "lambda"
       THEN event \in Events /\ argv = <<>>
       ELSE event = <<>> /\ argv \in Argvs
    /\ pc = "Idle"
    /\ page_number = None
    /\ dpi = 0
    /\ pdf_bytes = <<>>
    /\ doc = NoDoc
    /\ pix = NoPix
    /\ png_bytes = <<>>
    /\ trace = <<>>
    /\ fault = "none"
    /\ response = NoResponse
    /\ exit_code = -1
    /\ output_file = "absent"
    /\ stderr = None

(* ------------------------ the record of calls made -------------------- *)
\* trace lists the external calls in the order they were made
Has(call) == \E i \in DOMAIN trace : trace[i] = call
Count(t, call) == Cardinality({i \in DOMAIN t : t[i] = call})

(* --------------------------- lambda_handler ---------------------------- *)
\* the except branch of lambda_handler: the call `call` raised `type`
Raise(call, type) ==
    /\ fault' = call
    /\ response' = ExceptionResponse(type, [text |-> call])
    /\ pc' = "Responding"

Parse ==
    /\ entry = "lambda" /\ pc = "Idle"
    /\ page_number' = Get(event, "pageNumber", JInt(DefaultPage))
    /\ dpi' = Get(event, "dpi", DefaultDpi)
    /\ pc' = "Resolving"
    /\ UNCHANGED <<entry, event, argv, pdf_bytes, doc, pix, png_bytes, trace,
                   fault, response, exit_code, output_file, stderr>>

\* a storage read that is tried again after it failed
GetObject_Retry ==
    /\ entry = "lambda" /\ pc = "Resolving"
    /\ SourceOf(event) = "s3"
    /\ Count(trace, "get_object") < 2
    /\ trace' = Append(trace, "get_object")
    /\ \/ /\ pc' = "Resolving"
          /\ UNCHANGED <<pdf_bytes, fault, response>>
       \/ /\ \E n \in 0..MaxPdfLen : pdf_bytes' = Bytes(n)
          /\ pc' = "Opening"
          /\ UNCHANGED <<fault, response>>
    /\ UNCHANGED <<entry, event, argv, page_number, dpi, doc, pix, png_bytes,
                   exit_code, output_file, stderr>>

\* lines 47-55: s3_client.get_object(...) and response['Body'].read()
GetObject ==
    /\ entry = "lambda" /\ pc = "Resolving"
    /\ SourceOf(event) = "s3"
    /\ trace' = Append(trace, "get_object")
    /\ \/ /\ Raise("get_object", "ClientError")
          /\ UNCHANGED pdf_bytes
       \/ /\ \E n \in 0..MaxPdfLen : pdf_bytes' = Bytes(n)
          /\ pc' = "Opening"
          /\ UNCHANGED <<fault, response>>
    /\ UNCHANGED <<entry, event, argv, page_number, dpi, doc, pix, png_bytes,
                   exit_code, output_file, stderr>>

\* lines 56-60: base64.b64decode(event['pdfBase64'])
DecodeBase64 ==
    /\ entry = "lambda" /\ pc = "Resolving"
    /\ SourceOf(event) = "base64"
    /\ trace' = Append(trace, "b64decode")
    /\ LET r == b64decode(event["pdfBase64"])
       IN  IF r.ok
           THEN /\ pdf_bytes' = r.data
                /\ pc' = "Opening"
                /\ UNCHANGED <<fault, response>>
           ELSE /\ Raise("b64decode", "Error")
                /\ UNCHANGED pdf_bytes
    /\ UNCHANGED <<entry, event, argv, page_number, dpi, doc, pix, png_bytes,
                   exit_code, output_file, stderr>>

\* lines 61-65: no source given
MissingSource ==
    /\ entry = "lambda" /\ pc = "Resolving"
    /\ SourceOf(event) = "none"
    /\ response' = MissingSourceResponse
    /\ pc' = "Responding"
    /\ UNCHANGED <<entry, event, argv, page_number, dpi, pdf_bytes, doc, pix,
                   png_bytes, trace, fault, exit_code, output_file, stderr>>

\* What fitz.open can return for these bytes: an empty stream holds no page.
OpenOutcomes(bytes) ==
    {[state |-> "open", pageCount |-> n, rect |-> r] :
        n \in (IF Len(bytes) = 0 THEN {0} ELSE 0..MaxPages), r \in PageRects}

\* line 70: fitz.open(stream=pdf_bytes, filetype="pdf")
OpenDocument ==
    /\ entry = "lambda" /\ pc = "Opening"
    /\ trace' = Append(trace, "fitz.open")
    /\ \/ /\ Raise("fitz.open", "FileDataError")
          /\ UNCHANGED doc
       \/ /\ doc' \in OpenOutcomes(pdf_bytes)
          /\ pc' = "Validating"
          /\ UNCHANGED <<fault, response>>
    /\ UNCHANGED <<entry, event, argv, page_number, dpi, pdf_bytes, pix,
                   png_bytes, exit_code, output_file, stderr>>

\* lines 73-79: the page range check; comparing a non-number raises TypeError
ValidatePage ==
    /\ entry = "lambda" /\ pc = "Validating"
    /\ IF page_number.type # "int"
       THEN Raise("page_number < 1", "TypeError")
       ELSE IF PageOutOfRange(page_number.val, doc.pageCount)
       THEN /\ response' = InvalidPageResponse(page_number.val, doc.pageCount)
            /\ pc' = "Responding"
            /\ UNCHANGED fault
       ELSE /\ pc' = "Rendering"
            /\ UNCHANGED <<fault, response>>
    /\ UNCHANGED <<entry, event, argv, page_number, dpi, pdf_bytes, doc, pix,
                   png_bytes, trace, exit_code, output_file, stderr>>

\* page.get_pixmap(matrix=fitz.Matrix(zoom, zoom), alpha=False)
get_pixmap(rect, zoom) ==
    [width |-> Scale(rect[1], zoom), height |-> Scale(rect[2], zoom)]

\* lines 82-90: doc[page_number - 1], the zoom matrix, page.get_pixmap
RenderPage ==
    /\ entry = "lambda" /\ pc = "Rendering"
    /\ \/ /\ trace' = Append(trace, "doc[page]")
          /\ Raise("doc[page]", "RuntimeError")
          /\ UNCHANGED pix
       \/ /\ trace' = trace \o <<"doc[page]", "get_pixmap">>
          /\ Raise("get_pixmap", "RuntimeError")
          /\ UNCHANGED pix
       \/ /\ trace' = trace \o <<"doc[page]", "get_pixmap">>
          /\ pix' = get_pixmap(doc.rect, Zoom(dpi))
          /\ pc' = "Encoding"
          /\ UNCHANGED <<fault, response>>
    /\ UNCHANGED <<entry, event, argv, page_number, dpi, pdf_bytes, doc,
                   png_bytes, exit_code, output_file, stderr>>

\* lines 93-113: pix.tobytes("png"), base64.b64encode, doc.close(), the response
EncodeAndRespond ==
    /\ entry = "lambda" /\ pc = "Encoding"
    /\ \/ /\ trace' = Append(trace, "tobytes")
          /\ Raise("tobytes", "RuntimeError")
          /\ UNCHANGED <<png_bytes, doc>>
       \/ \E n \in 1..MaxPng :
            /\ png_bytes' = Bytes(n)
            /\ trace' = trace \o <<"tobytes", "b64encode", "doc.close">>
            /\ doc' = [doc EXCEPT !.state = "closed"]
            /\ response' = SuccessResponse(b64encode(png_bytes'), pix, png_bytes',
                                           page_number.val, dpi)
            /\ pc' = "Responding"
            /\ UNCHANGED fault
    /\ UNCHANGED <<entry, event, argv, page_number, dpi, pdf_bytes, pix,
                   exit_code, output_file, stderr>>

lambda_handler ==
    \/ Parse
    \/ GetObject
    \/ DecodeBase64
    \/ MissingSource
    \/ OpenDocument
    \/ ValidatePage
    \/ RenderPage
    \/ EncodeAndRespond

(* ---------------------- convert_pdf.py (command line) ------------------ *)
\* int(s): the token parses as an integer or raises ValueError
IsIntText(tok) == tok.type = "int"

\* an except branch that reports the error and still returns 0
CliFail_ExitZero(call, msg) ==
    /\ fault' = call
    /\ stderr' = msg
    /\ exit_code' = 0
    /\ pc' = "Responding"

\* the except branch of convert_pdf_page_to_image: print the error, return 1
CliFail(call, msg) ==
    /\ fault' = call
    /\ stderr' = msg
    /\ exit_code' = 1
    /\ pc' = "Responding"

\* lines 53-63: the argument check and conversions, before the call
Main ==
    /\ entry = "cli" /\ pc = "Idle"
    /\ IF Len(argv) < MinArgc
       THEN /\ exit_code' = 1
            /\ pc' = "Responding"
            /\ UNCHANGED <<page_number, dpi, fault>>
       ELSE IF ~IsIntText(argv[3]) \/ (Len(argv) > MinArgc /\ ~IsIntText(argv[5]))
       THEN \* int() raises ValueError outside any try: the interpreter exits 1
            /\ exit_code' = 1
            /\ fault' = "int"
            /\ pc' = "Responding"
            /\ UNCHANGED <<page_number, dpi>>
       ELSE /\ page_number' = argv[3]
            /\ dpi' = IF Len(argv) > MinArgc THEN argv[5].val ELSE DefaultDpi
            /\ pc' = "Opening"
            /\ UNCHANGED <<exit_code, fault>>
    /\ UNCHANGED <<entry, event, argv, pdf_bytes, doc, pix, png_bytes, trace,
                   response, output_file, stderr>>

\* line 22: fitz.open(pdf_path)
CliOpen ==
    /\ entry = "cli" /\ pc = "Opening"
    /\ trace' = Append(trace, "fitz.open")
    /\ \/ /\ CliFail("fitz.open", [text |-> "fitz.open"])
          /\ UNCHANGED doc
       \/ /\ doc' \in OpenOutcomes(<<0>>)
          /\ pc' = "Validating"
          /\ UNCHANGED <<fault, stderr, exit_code>>
    /\ UNCHANGED <<entry, event, argv, page_number, dpi, pdf_bytes, pix,
                   png_bytes, response, output_file>>

\* lines 25-26: raise ValueError(...) when the page is out of range
CliValidate ==
    /\ entry = "cli" /\ pc = "Validating"
    /\ IF PageOutOfRange(page_number.val, doc.pageCount)
       THEN CliFail("ValueError", InvalidPageMessage(page_number.val, doc.pageCount))
       ELSE /\ pc' = "Rendering"
            /\ UNCHANGED <<fault, stderr, exit_code>>
    /\ UNCHANGED <<entry, event, argv, page_number, dpi, pdf_bytes, doc, pix,
                   png_bytes, trace, response, output_file>>

\* lines 29-37: doc[page_number - 1], the zoom matrix, page.get_pixmap
CliRender ==
    /\ entry = "cli" /\ pc = "Rendering"
    /\ \/ /\ trace' = Append(trace, "doc[page]")
          /\ CliFail("doc[page]", [text |-> "doc[page]"])
          /\ UNCHANGED pix
       \/ /\ trace' = trace \o <<"doc[page]", "get_pixmap">>
          /\ CliFail("get_pixmap", [text |-> "get_pixmap"])
          /\ UNCHANGED pix
       \/ /\ trace' = trace \o <<"doc[page]", "get_pixmap">>
          /\ pix' = get_pixmap(doc.rect, Zoom(dpi))
          /\ pc' = "Encoding"
          /\ UNCHANGED <<fault, stderr, exit_code>>
    /\ UNCHANGED <<entry, event, argv, page_number, dpi, pdf_bytes, doc,
                   png_bytes, response, output_file>>

\* lines 40-48: pix.save(output_path), doc.close(), return 0; a save that
\* raises may leave nothing or part of a file behind
CliSave ==
    /\ entry = "cli" /\ pc = "Encoding"
    /\ \/ /\ trace' = Append(trace, "pix.save")
          /\ CliFail("pix.save", [text |-> "pix.save"])
          /\ output_file' \in {"absent", "partial"}
          /\ UNCHANGED doc
       \/ /\ trace' = trace \o <<"pix.save", "doc.close">>
          /\ output_file' = "png"
          /\ doc' = [doc EXCEPT !.state = "closed"]
          /\ exit_code' = 0
          /\ pc' = "Responding"
          /\ UNCHANGED <<fault, stderr>>
    /\ UNCHANGED <<entry, event, argv, page_number, dpi, pdf_bytes, pix,
                   png_bytes, response>>

convert_pdf_page_to_image ==
    \/ CliOpen
    \/ CliValidate
    \/ CliRender
    \/ CliSave

Next ==
    \/ lambda_handler
    \/ Main
    \/ convert_pdf_page_to_image

Spec == Init /\ [][Next]_vars

(* ------------------------- vocabulary of the claims -------------------- *)

RenderCalls == {"doc[page]", "get_pixmap", "tobytes", "b64encode", "pix.save"}
SuccessFields == {"imageBase64", "width", "height", "size", "pageNumber", "dpi"}
ImageFields == {"imageBase64", "width", "height", "size"}

HasLocation == "s3Bucket" \in DOMAIN event /\ "s3Key" \in DOMAIN event
HasEmbedded == "pdfBase64" \in DOMAIN event
Responded == pc = "Responding"
Opened == doc.state # "none"

\* the requested page is an integer within 1..pageCount of the opened document
ValidPage ==
    /\ Opened
    /\ page_number.type = "int"
    /\ 1 <= page_number.val /\ page_number.val <= doc.pageCount

\* the requested page is an integer outside 1..pageCount of the opened document
InvalidPage ==
    /\ Opened
    /\ page_number.type = "int"
    /\ (page_number.val < 1 \/ page_number.val > doc.pageCount)

\* canonical base64 text (RFC 4648): alphabet characters in groups of four,
\* at most two "=" and only at the very end
WellFormedB64(s) ==
    /\ Len(s) % 4 = 0
    /\ \A i \in DOMAIN s : s[i] # "!"
    /\ \A i \in DOMAIN s : s[i] = "=" => (i > Len(s) - 2 /\ \A j \in i..Len(s) : s[j] = "=")

\* position of the handler in its straight line
Pos(p) ==
    CASE p = "Idle" -> 0
      [] p = "Resolving" -> 1
      [] p = "Opening" -> 2
      [] p = "Validating" -> 3
      [] p = "Rendering" -> 4
      [] p = "Encoding" -> 5
      [] p = "Responding" -> 6

(* -------------------------------- claims ------------------------------- *)
\* C1: a request whose source is a parseable PDF and whose integer page p is
\* within 1..pageCount, with no external step failing, succeeds: the handler
\* answers 200 with imageBase64, width > 0, height > 0, size = the length of
\* the PNG bytes that were encoded, and pageNumber and dpi as requested; the
\* command-line function returns 0.
C1_ValidPageSucceeds ==
    (Responded /\ ValidPage /\ fault = "none") =>
        IF entry = "lambda"
        THEN /\ response.statusCode = 200
             /\ SuccessFields \subseteq DOMAIN response.body
             /\ response.body.width > 0
             /\ response.body.height > 0
             /\ response.body.size = Len(png_bytes)
             /\ b64decode(response.body.imageBase64) = [ok |-> TRUE, data |-> png_bytes]
             /\ JInt(response.body.pageNumber) = Get(event, "pageNumber", JInt(1))
             /\ response.body.dpi = Get(event, "dpi", 150)
        ELSE exit_code = 0

C1_Witness ==
    /\ Responded /\ entry = "lambda" /\ ValidPage /\ fault = "none"
    /\ page_number.val = 2 /\ "dpi" \notin DOMAIN event
    /\ response.statusCode = 200

\* C2: with a parseable PDF and an integer page p < 1 or p > pageCount the
\* conversion fails as page-out-of-range, the message names p and the page
\* count, and get-page, render and encode are never called; in the handler
\* (a 400 response) and in the command-line function (exit code 1).
C2_PageOutOfRange ==
    InvalidPage =>
        /\ \A c \in RenderCalls : ~Has(c)
        /\ pc \notin {"Rendering", "Encoding"}
        /\ Responded =>
            IF entry = "lambda"
            THEN /\ response.statusCode = 400
                 /\ response.body.error.text = "Invalid page number: {page}. PDF has {pages} pages."
                 /\ response.body.error.page = page_number.val
                 /\ response.body.error.pages = doc.pageCount
            ELSE /\ exit_code = 1
                 /\ stderr.text = "Invalid page number: {page}. PDF has {pages} pages."
                 /\ stderr.page = page_number.val
                 /\ stderr.pages = doc.pageCount

C2_Witness ==
    /\ Responded /\ entry = "lambda" /\ InvalidPage
    /\ page_number.val = 2 /\ doc.pageCount = 1
    /\ response.statusCode = 400

\* C3: a request with neither a complete storage location nor pdfBase64
\* fails with the missing-source response, and at no point of that execution
\* has a storage read, a decode, a document open or a render step occurred.
C3_MissingSource ==
    (entry = "lambda" /\ ~HasLocation /\ ~HasEmbedded) =>
        /\ trace = <<>>
        /\ ~Opened
        /\ pc \in {"Idle", "Resolving", "Responding"}
        /\ Responded =>
            /\ response.statusCode = 400
            /\ response.body.error.text = "s3Bucket+s3Key or pdfBase64 is required"

C3_Witness ==
    /\ Responded /\ entry = "lambda"
    /\ "s3Bucket" \in DOMAIN event /\ "s3Key" \notin DOMAIN event /\ ~HasEmbedded
    /\ response.statusCode = 400

\* C4: the handler returns exactly one response, with statusCode 200, 400 or
\* 500; a 200 body holds exactly the six success fields and no error, a 400
\* or 500 body holds error and none of imageBase64, width, height, size;
\* before the response nothing is returned, and the handler always gets there.
C4_TotalAndExclusive ==
    entry = "lambda" =>
        /\ ~Responded => (response.statusCode = 0 /\ ENABLED Next)
        /\ Responded =>
            /\ ~ENABLED Next
            /\ response.statusCode \in {200, 400, 500}
            /\ response.statusCode = 200 =>
                (DOMAIN response.body = SuccessFields /\ fault = "none")
            /\ response.statusCode # 200 =>
                /\ "error" \in DOMAIN response.body
                /\ DOMAIN response.body \cap ImageFields = {}

C4_Witness ==
    /\ Responded /\ entry = "lambda"
    /\ response.statusCode = 500 /\ fault = "tobytes"

\* C5 (as claimed): every failure response has a body with both the error
\* message and the error's category name.
C5_Original ==
    (Responded /\ entry = "lambda" /\ response.statusCode # 200) =>
        {"error", "type"} \subseteq DOMAIN response.body

\* C5 (amended): every failure response has a body with the error message;
\* the category name (type) is there exactly in the exception handler's 500
\* responses, and the 400 responses of the missing-source and page-range
\* checks hold the message alone.
C5_Amended ==
    (Responded /\ entry = "lambda" /\ response.statusCode # 200) =>
        /\ "error" \in DOMAIN response.body
        /\ response.statusCode = 500 <=> fault # "none"
        /\ response.statusCode = 500 => DOMAIN response.body = {"error", "type"}
        /\ response.statusCode = 400 => DOMAIN response.body = {"error"}

C5_Witness ==
    /\ Responded /\ entry = "lambda" /\ InvalidPage
    /\ response.statusCode = 400 /\ "type" \notin DOMAIN response.body

\* C6: a failed storage read fails the request (SourceUnavailable), and
\* embedded bytes whose base64 text is malformed fail the request at the
\* decode (InvalidEncoding); in both cases no document is opened and no page
\* is rendered.
C6_Claim ==
    entry = "lambda" =>
        /\ (HasLocation /\ fault = "get_object") =>
            (~Has("fitz.open") /\ (Responded => response.statusCode = 500))
        /\ (~HasLocation /\ HasEmbedded /\ ~WellFormedB64(event["pdfBase64"])) =>
            /\ ~Has("fitz.open")
            /\ Responded => (response.statusCode = 500 /\ fault = "b64decode")

\* C7 (as claimed): a request with no resolvable source, and a request with
\* both a complete storage location and pdfBase64, are rejected, not converted.
C7_Original ==
    (entry = "lambda" /\ (HasLocation <=> HasEmbedded)) =>
        /\ trace = <<>>
        /\ Responded => response.statusCode = 400

\* C7 (amended): a request is converted only if at least one source is
\* resolvable; a request with no source is rejected, and a request with both
\* is served from the storage location, its pdfBase64 never decoded.
C7_Amended ==
    entry = "lambda" =>
        /\ (~HasLocation /\ ~HasEmbedded) =>
            (trace = <<>> /\ (Responded => response.statusCode = 400))
        /\ (HasLocation /\ HasEmbedded) =>
            /\ ~Has("b64decode")
            /\ Pos(pc) > 1 => trace[1] = "get_object"
        /\ (Responded /\ response.statusCode = 200) => (HasLocation \/ HasEmbedded)

C7_Witness ==
    /\ Responded /\ entry = "lambda" /\ HasLocation /\ HasEmbedded
    /\ response.statusCode = 200

\* C8: the command-line function returns 0 exactly when the page was rendered
\* and the PNG written, and 1 on every failure; when it fails before the save
\* step (usage, open failure, page out of range) nothing is written.
C8_ExitCode ==
    entry = "cli" =>
        /\ ~Responded => (exit_code = -1 /\ output_file = "absent")
        /\ Responded =>
            /\ exit_code \in {0, 1}
            /\ exit_code = 0 <=> (pix # NoPix /\ output_file = "png")
            /\ exit_code = 0 <=> (fault = "none" /\ Len(argv) >= 4)
            /\ ~Has("pix.save") => output_file = "absent"
            /\ (fault = "fitz.open" \/ InvalidPage) => ~Has("pix.save")

C8_Witness ==
    /\ Responded /\ entry = "cli" /\ exit_code = 0 /\ output_file = "png"
    /\ Len(argv) = 5

\* C9: whenever the document was opened, it has been closed by the time the
\* response or exit code is returned.
C9_Claim == (Responded /\ Opened) => doc.state = "closed"

\* C10: the handler moves forward only (Idle, Resolving, Rendering,
\* Responding): each step advances its position, each external call happens
\* at most once, a render follows a resolved source and a validated page, the
\* first failure goes straight to the failure response, and nothing follows
\* the response.
C10_Linear ==
    [][entry = "lambda" =>
        /\ pc # "Responding"
        /\ Pos(pc') > Pos(pc)
        /\ pc = "Idle" => pc' = "Resolving"
        /\ \A c \in {"get_object", "b64decode", "fitz.open", "doc[page]",
                     "get_pixmap", "tobytes", "b64encode", "doc.close"} :
               Count(trace', c) <= 1
        /\ Count(trace', "get_object") + Count(trace', "b64decode") <= 1
        /\ Count(trace', "get_pixmap") = 1 =>
            /\ Count(trace, "get_object") + Count(trace, "b64decode") = 1
            /\ ValidPage
        /\ (fault = "none" /\ fault' # "none") =>
            /\ pc' = "Responding"
            /\ response'.statusCode = 500
            /\ (\E i \in DOMAIN trace' : trace'[i] = fault') =>
                   trace'[Len(trace')] = fault'
      ]_vars

C10_Witness ==
    /\ Responded /\ entry = "lambda"
    /\ trace = <<"get_object", "fitz.open", "doc[page]", "get_pixmap">>
    /\ fault = "get_pixmap"
====
